---- MODULE Spec2Model ----
\* Order placement of the e-commerce backend (backend/app): the create-order
\* request path router -> controller -> order service over one SQL database,
\* with the ORM session of each request modelled explicitly.
EXTENDS Integers, Sequences, FiniteSets, TLC

\* ------------------------------------------------------------------ bounds
\* Stock of every catalog product in the initial state.
InitInventory == 2
\* Longest item list a request submits.
MaxLines == 2
\* Orders persisted plus requests in flight; no request arrives beyond it.
MaxOrders == 2
\* Largest page and page_size of the listing and pagination inputs.
MaxPage == 5
MaxPageSize == 5

\* ------------------------------------------------------------ data domains
\* Catalog product ids; MissingId is a product_id no catalog row has.
Products == {1, 2, 3}
MissingId == 4
Users == {1, 2}
Reqs == {1, 2}
\* Prices in cents (Numeric(10, 2) as an exact decimal).
PriceChoices == {500, 999}
Title(p) == IF p = 1 THEN "A" ELSE "B"

\* Python None for an Optional[str]; "" is the empty string.
None == "None"
NoInt == -1
NoWriter == 0

Line(p, q) == [product_id |-> p, quantity |-> q]
\* Request lines: OrderItemRequest has product_id > 0 and quantity > 0.
AllLines == {Line(1, 1), Line(1, 2), Line(2, 1), Line(MissingId, 1)}
\* Item lists of the specifications that vary something else.
SnapLists == {<<Line(1, 2)>>, <<Line(1, 1), Line(2, 1)>>}
ShipLists == {<<Line(1, 2)>>}
ConcLists == {<<Line(1, 1)>>, <<Line(1, 2)>>, <<Line(2, 1)>>, <<Line(1, 1), Line(2, 1)>>}
RECURSIVE SeqsUpTo(_, _)
SeqsUpTo(S, n) ==
  IF n = 0 THEN {<<>>}
  ELSE LET shorter == SeqsUpTo(S, n - 1)
       IN shorter \cup {Append(s, x) : s \in {t \in shorter : Len(t) = n - 1}, x \in S}
\* OrderRequest.items has min_length = 1.
ItemLists(S) == {s \in SeqsUpTo(S, MaxLines) : Len(s) >= 1}

Address(a, b, c, d, e) ==
  [street |-> a, city |-> b, state |-> c, postal_code |-> d, country |-> e]
NoAddress == Address(None, None, None, None, None)
HomeAddress == Address("1 Home St", "Home City", "HS", "11111", "USA")
\* Addresses a request or a profile may carry.
AllAddresses ==
  { NoAddress,
    Address("", "", "", "", ""),
    Address("9 Req Rd", "Req City", "RS", "99999", "NL"),
    Address("9 Req Rd", None, "", None, None),
    Address(None, "", None, "99999", ""),
    Address("", None, None, "", "NL") }
FewAddresses == {NoAddress, Address("9 Req Rd", "Req City", "RS", "99999", "NL")}
ProfileAddresses == {HomeAddress, Address("2 New St", "New City", "NS", "22222", None)}

VARIABLES
  inventory,     \* products.inventory, committed
  price,         \* products.price, committed
  users,         \* users address columns, committed
  orders,        \* orders rows, committed, in id order
  order_items,   \* order_items rows, committed, in id order
  writer,        \* the request whose transaction holds the database write lock
  pc,            \* position of each request
  req,           \* the request: user, items, resolved shipping_address
  products,      \* create_order's `products` dict of loaded Product objects
  draft,         \* create_order's `order_items` list and total_amount
  order,         \* the pending Order object of the session
  pending,       \* the pending OrderItem objects of the session
  err,           \* the ValueError raised by create_order
  resp,          \* the HTTP response
  calls,         \* the session methods awaited so far
  pre,           \* the committed order state when the request arrived
  seen,          \* the product rows as the batch fetch returned them
  overlap,       \* the requests past validation, uncommitted, when this one committed
  reply          \* the response of the last read-only request

vars == <<inventory, price, users, orders, order_items, writer, pc, req,
          products, draft, order, pending, err, resp, calls, pre, seen, overlap,
          reply>>
db == <<inventory, price, users, orders, order_items>>

\* ------------------------------------------------------------ pure helpers
\* Python `x or y` on Optional[str]: x when truthy, else y.
PyOrNotNone(x, y) == IF x # None THEN x ELSE y
PyOr(x, y) == IF x \notin {None, ""} THEN x ELSE y

ProductNotFound(product_id) ==
  [kind |-> "not_found", product_id |-> product_id, title |-> None,
   available |-> NoInt, requested |-> NoInt]
InsufficientInventory(product, quantity) ==
  [kind |-> "insufficient", product_id |-> NoInt, title |-> product.title,
   available |-> product.inventory, requested |-> quantity]
NoError ==
  [kind |-> "none", product_id |-> NoInt, title |-> None,
   available |-> NoInt, requested |-> NoInt]

NoDraft == [order_items |-> <<>>, total_amount |-> 0]
NoOrder == [id |-> 0]
NoResp == [status |-> 0, detail |-> NoError, order_id |-> 0]
NoReq ==
  [user_id |-> 0, items |-> <<>>, given |-> NoAddress, profile |-> NoAddress,
   shipping_address |-> NoAddress]
NoPre == [inventory |-> <<>>, orders |-> <<>>, order_items |-> <<>>]
NoReply == [op |-> "none"]

\* The quantity of the last line for product p only.
RECURSIVE SumQtyLastLine(_, _)
SumQtyLastLine(lines, p) ==
  IF lines = <<>> THEN 0
  ELSE IF Head(lines).product_id = p /\ SumQtyLastLine(Tail(lines), p) = 0
       THEN Head(lines).quantity
       ELSE SumQtyLastLine(Tail(lines), p)

RECURSIVE SumQty(_, _)
\* Total quantity a list of lines asks of product p.
SumQty(lines, p) ==
  IF lines = <<>> THEN 0
  ELSE (IF Head(lines).product_id = p THEN Head(lines).quantity ELSE 0)
       + SumQty(Tail(lines), p)

RECURSIVE SumTotal(_)
SumTotal(lines) ==
  IF lines = <<>> THEN 0
  ELSE Head(lines).quantity * Head(lines).price_at_purchase + SumTotal(Tail(lines))

\* The controller's shipping_address dict.
ShippingAddress(given, user) ==
  [street |-> PyOr(given.street, user.street),
   city |-> PyOr(given.city, user.city),
   state |-> PyOr(given.state, user.state),
   postal_code |-> PyOr(given.postal_code, user.postal_code),
   country |-> PyOr(PyOr(given.country, user.country), "USA")]

\* select(Product).where(Product.id.in_(product_ids)) as a dict by id.
LoadedProducts(items) ==
  [p \in {items[i].product_id : i \in 1..Len(items)} \cap Products |->
     [id |-> p, title |-> Title(p), price |-> price[p], inventory |-> inventory[p]]]

OrderItemDictLineTotal(product, quantity) ==
  [product_id |-> product.id, quantity |-> quantity,
   price_at_purchase |-> product.price * quantity]
\* The dict appended to create_order's order_items list.
OrderItemDict(product, quantity) ==
  [product_id |-> product.id, quantity |-> quantity,
   price_at_purchase |-> product.price]

RECURSIVE ValidateFrom(_, _, _, _)
ValidateFrom(items, prods, i, acc) ==
  IF i > Len(items)
  THEN [ok |-> TRUE, draft |-> acc, error |-> NoError, products |-> prods]
  ELSE LET product_id == items[i].product_id
           quantity == items[i].quantity
       IN IF product_id \notin DOMAIN prods
          THEN [ok |-> FALSE, draft |-> NoDraft, error |-> ProductNotFound(product_id),
                products |-> prods]
          ELSE LET product == prods[product_id]
               IN IF product.inventory < quantity
                  THEN [ok |-> FALSE, draft |-> NoDraft,
                        error |-> InsufficientInventory(product, quantity),
                        products |-> prods]
                  ELSE ValidateFrom(items, prods, i + 1,
                         [order_items |-> Append(acc.order_items,
                                                 OrderItemDict(product, quantity)),
                          total_amount |-> acc.total_amount + product.price * quantity])

RECURSIVE ValidateNoStockFrom(_, _, _, _)
ValidateNoStockFrom(items, prods, i, acc) ==
  IF i > Len(items)
  THEN [ok |-> TRUE, draft |-> acc, error |-> NoError, products |-> prods]
  ELSE LET product_id == items[i].product_id
           quantity == items[i].quantity
       IN IF product_id \notin DOMAIN prods
          THEN [ok |-> FALSE, draft |-> NoDraft, error |-> ProductNotFound(product_id),
                products |-> prods]
          ELSE ValidateNoStockFrom(items, prods, i + 1,
                 [order_items |-> Append(acc.order_items,
                                         OrderItemDict(prods[product_id], quantity)),
                  total_amount |-> acc.total_amount
                                   + prods[product_id].price * quantity])

RECURSIVE ValidateDecrementingFrom(_, _, _, _)
ValidateDecrementingFrom(items, prods, i, acc) ==
  IF i > Len(items)
  THEN [ok |-> TRUE, draft |-> acc, error |-> NoError, products |-> prods]
  ELSE LET product_id == items[i].product_id
           quantity == items[i].quantity
       IN IF product_id \notin DOMAIN prods
          THEN [ok |-> FALSE, draft |-> NoDraft, error |-> ProductNotFound(product_id),
                products |-> prods]
          ELSE LET product == prods[product_id]
               IN IF product.inventory < quantity
                  THEN [ok |-> FALSE, draft |-> NoDraft,
                        error |-> InsufficientInventory(product, quantity),
                        products |-> prods]
                  ELSE ValidateDecrementingFrom(items,
                         [prods EXCEPT ![product_id].inventory = @ - quantity], i + 1,
                         [order_items |-> Append(acc.order_items,
                                                 OrderItemDict(product, quantity)),
                          total_amount |-> acc.total_amount + product.price * quantity])

\* A validation that decrements each line's product as soon as the line passes.
ValidateItemsDecrementing(items, prods) ==
  ValidateDecrementingFrom(items, prods, 1, NoDraft)
\* A validation that looks for missing products on every line first.
ValidateItemsExistenceFirst(items, prods) ==
  LET missing == {i \in 1..Len(items) : items[i].product_id \notin DOMAIN prods}
  IN IF missing # {}
     THEN [ok |-> FALSE, draft |-> NoDraft,
           error |-> ProductNotFound(
             items[CHOOSE i \in missing : \A j \in missing : i <= j].product_id),
           products |-> prods]
     ELSE ValidateFrom(items, prods, 1, NoDraft)
\* A validation without the inventory check.
ValidateItemsNoStockCheck(items, prods) == ValidateNoStockFrom(items, prods, 1, NoDraft)
\* create_order's validation loop over the submitted lines, in order.
ValidateItems(items, prods) == ValidateFrom(items, prods, 1, NoDraft)

NewOrderCompleted(id, user_id, total_amount, shipping_address) ==
  [id |-> id, user_id |-> user_id, status |-> "COMPLETED", created_at |-> id,
   total_amount |-> total_amount,
   shipping_street |-> shipping_address.street,
   shipping_city |-> shipping_address.city,
   shipping_state |-> shipping_address.state,
   shipping_postal_code |-> shipping_address.postal_code,
   shipping_country |-> shipping_address.country]
\* Order(...) as constructed by create_order; the flush sets id and created_at,
\* and inserts under the write lock, so created_at follows the id order.
NewOrder(id, user_id, total_amount, shipping_address) ==
  [id |-> id, user_id |-> user_id, status |-> "PENDING", created_at |-> id,
   total_amount |-> total_amount,
   shipping_street |-> shipping_address.street,
   shipping_city |-> shipping_address.city,
   shipping_state |-> shipping_address.state,
   shipping_postal_code |-> shipping_address.postal_code,
   shipping_country |-> PyOr(shipping_address.country, "USA")]

NewOrderItemsFirstLine(order_id, dicts) ==
  [i \in 1..(IF Len(dicts) > 1 THEN 1 ELSE Len(dicts)) |->
     [order_id |-> order_id, product_id |-> dicts[i].product_id,
      quantity |-> dicts[i].quantity,
      price_at_purchase |-> dicts[i].price_at_purchase]]
\* OrderItem(...) rows built from the validated dicts.
NewOrderItems(order_id, dicts) ==
  [i \in 1..Len(dicts) |->
     [order_id |-> order_id, product_id |-> dicts[i].product_id,
      quantity |-> dicts[i].quantity,
      price_at_purchase |-> dicts[i].price_at_purchase]]

\* CheckConstraint("quantity > 0") on order_items.
CheckQuantityPositive(v) == v > 0

\* CheckConstraint("inventory >= 0") on products.
CheckInventoryUnchecked(v) == TRUE
CheckInventoryNonNegative(v) == v >= 0

\* The value the flush writes for a modified Product: the attribute value the
\* session computed from the row it loaded.
FlushedInventoryLoaded(r, p) == seen[r][p].inventory
FlushedInventoryRelative(r, p) == inventory[p] - SumQty(draft[r].order_items, p)
FlushedInventory(r, p) == products[r][p].inventory

\* The other requests that passed validation and have not committed yet.
PastValidation(r) == {q \in Reqs \ {r} : pc[q] \in {"flush", "build", "commit"}}

Modified(r) == {draft[r].order_items[i].product_id : i \in 1..Len(draft[r].order_items)}

\* An order item as hydrated for a response: the row with its product.
OrderItemViewLive(row) ==
  [product_id |-> row.product_id, quantity |-> row.quantity,
   price_at_purchase |-> price[row.product_id],
   product |-> [id |-> row.product_id, price |-> price[row.product_id],
                inventory |-> inventory[row.product_id]]]
OrderItemView(row) ==
  [product_id |-> row.product_id, quantity |-> row.quantity,
   price_at_purchase |-> row.price_at_purchase,
   product |-> [id |-> row.product_id, price |-> price[row.product_id],
                inventory |-> inventory[row.product_id]]]

\* An order with its selectinload-ed order_items.
OrderView(o) ==
  [o |-> o,
   order_items |-> LET rows == SelectSeq(order_items, LAMBDA row : row.order_id = o.id)
                   IN [i \in 1..Len(rows) |-> OrderItemView(rows[i])]]

get_user_orders_everyone(user_id) ==
  [i \in 1..Len(orders) |-> OrderView(orders[Len(orders) + 1 - i])]
\* get_user_orders: the user's orders, newest first. The rows of `orders` are
\* kept in created_at order, so the descending sort reads the selection from
\* its last row to its first.
get_user_orders(user_id) ==
  LET mine == SelectSeq(orders, LAMBDA o : o.user_id = user_id)
      n == Len(mine)
  IN [i \in 1..n |-> OrderView(mine[n + 1 - i])]

\* ------------------------------------------------------ catalog and login
\* Python truthiness of an Optional[str].
PyTruthy(v) == v \notin {None, ""}

\* The characters of the strings used as titles and search terms.
Chars(s) ==
  CASE s = "A" -> <<"A">>
    [] s = "B" -> <<"B">>
    [] s = "a" -> <<"a">>
    [] s = "b" -> <<"b">>
    [] s = "ab" -> <<"a", "b">>
    [] OTHER -> <<>>
Lower(c) == CASE c = "A" -> "a" [] c = "B" -> "b" [] OTHER -> c
LowerChars(s) == [i \in 1..Len(Chars(s)) |-> Lower(Chars(s)[i])]
\* Product.title.ilike("%term%"): case-insensitive substring match.
ILike(title, term) ==
  LET t == LowerChars(title)
      n == LowerChars(term)
  IN \E i \in 0..(Len(t) - Len(n)) : SubSeq(t, i + 1, i + Len(n)) = n

\* Category.name of the product's category.
CategoryEnum == {"Electronics", "Clothing", "Books"}
CategoryName(p) == IF p = 3 THEN "Books" ELSE "Electronics"

\* The products table in storage order with the joined category name.
ProductRows ==
  [p \in 1..Cardinality(Products) |->
     [id |-> p, title |-> Title(p), price |-> price[p], inventory |-> inventory[p],
      category |-> CategoryName(p)]]

\* ProductQuery: page >= 1, 1 <= page_size <= 100, category of CategoryEnum.
MaxAcceptedPageSize == 100
ProductQueryValid(params) ==
  /\ params.page >= 1
  /\ params.page_size >= 1
  /\ params.page_size <= MaxAcceptedPageSize
  /\ params.category \in CategoryEnum \cup {None}

calculate_pagination_no_clamp(page, page_size) ==
  [offset |-> (page - 1) * page_size, limit |-> page_size]
DefaultPageSize == 10
\* calculate_pagination(page, page_size) -> (offset, limit).
calculate_pagination(page, page_size) ==
  LET p == IF page < 1 THEN 1 ELSE page
      ps == IF page_size < 1 THEN DefaultPageSize ELSE page_size
  IN [offset |-> (p - 1) * ps, limit |-> ps]

\* query.offset(offset).limit(limit): skip offset rows, keep at most limit.
OffsetLimit(rows, offset, limit) ==
  LET left == Len(rows) - offset
      n == IF left < 0 THEN 0 ELSE IF left < limit THEN left ELSE limit
  IN [i \in 1..n |-> rows[offset + i]]

\* The rows matching the search and category filters.
Matching(search, category) ==
  SelectSeq(ProductRows,
            LAMBDA row : /\ PyTruthy(search) => ILike(row.title, search)
                         /\ PyTruthy(category) => row.category = category)

get_product_list_count_page(filter_params) ==
  LET matching == Matching(filter_params.search, filter_params.category)
      pg == calculate_pagination(filter_params.page, filter_params.page_size)
      rows == OffsetLimit(matching, pg.offset, pg.limit)
  IN [products |-> rows, total_count |-> Len(rows)]
\* get_product_list: (products of the page, total_count before pagination).
get_product_list(filter_params) ==
  LET matching == Matching(filter_params.search, filter_params.category)
      pg == calculate_pagination(filter_params.page, filter_params.page_size)
  IN [products |-> OffsetLimit(matching, pg.offset, pg.limit),
      total_count |-> Len(matching)]

PyFloorDiv(a, b) == a \div b
\* math.ceil(a / b) for a >= 0, b >= 1.
PyCeilDiv(a, b) == IF a % b = 0 THEN a \div b ELSE a \div b + 1

\* fetch_products: the ProductListResponse.
fetch_products(params) ==
  LET got == get_product_list(params)
  IN [products |-> got.products, total |-> got.total_count, page |-> params.page,
      page_size |-> params.page_size,
      total_pages |-> IF got.total_count > 0
                      THEN PyCeilDiv(got.total_count, params.page_size) ELSE 0]

\* users.email, the password verify_password accepts, users.is_active.
Email(u) == IF u = 1 THEN "u1@shop" ELSE "u2@shop"
Password(u) == IF u = 1 THEN "pw1" ELSE "pw2"
IsActive(u) == TRUE
\* authenticate_user: 401, 403 or the bearer token of the user.
authenticate_user(email, password) ==
  IF \A u \in Users : Email(u) # email
  THEN [status |-> 401, sub |-> 0]
  ELSE LET user == CHOOSE u \in Users : Email(u) = email
       IN IF password # Password(user) THEN [status |-> 401, sub |-> 0]
          ELSE IF ~IsActive(user) THEN [status |-> 403, sub |-> 0]
          ELSE [status |-> 200, sub |-> user]

\* ------------------------------------------------------------------- Init
Init ==
  /\ inventory = [p \in Products |-> InitInventory]
  /\ price = [p \in Products |-> 999]
  /\ users = [u \in Users |-> HomeAddress]
  /\ orders = <<>>
  /\ order_items = <<>>
  /\ writer = NoWriter
  /\ pc = [r \in Reqs |-> "idle"]
  /\ req = [r \in Reqs |-> NoReq]
  /\ products = [r \in Reqs |-> <<>>]
  /\ draft = [r \in Reqs |-> NoDraft]
  /\ order = [r \in Reqs |-> NoOrder]
  /\ pending = [r \in Reqs |-> <<>>]
  /\ err = [r \in Reqs |-> NoError]
  /\ resp = [r \in Reqs |-> NoResp]
  /\ calls = [r \in Reqs |-> <<>>]
  /\ pre = [r \in Reqs |-> NoPre]
  /\ seen = [r \in Reqs |-> <<>>]
  /\ overlap = [r \in Reqs |-> {}]
  /\ reply = NoReply

\* ---------------------------------------------------------------- actions
\* POST /orders arrives: the controller prepares items and shipping_address.
Begin(r, us, lists, addrs) ==
  /\ pc[r] = "idle"
  /\ Len(orders) + Cardinality({q \in Reqs : pc[q] # "idle"}) < MaxOrders
  /\ \E u \in us, items \in lists, given \in addrs :
       req' = [req EXCEPT ![r] =
                 [user_id |-> u, items |-> items, given |-> given,
                  profile |-> users[u],
                  shipping_address |-> ShippingAddress(given, users[u])]]
  /\ pre' = [pre EXCEPT ![r] =
               [inventory |-> inventory, orders |-> orders,
                order_items |-> order_items]]
  /\ pc' = [pc EXCEPT ![r] = "fetch"]
  /\ UNCHANGED <<reply, db, writer, products, draft, order, pending, err, resp, calls,
                 seen, overlap>>

\* create_order: the batch fetch of the referenced products.
Fetch(r) ==
  /\ pc[r] = "fetch"
  /\ products' = [products EXCEPT ![r] = LoadedProducts(req[r].items)]
  /\ seen' = [seen EXCEPT ![r] = LoadedProducts(req[r].items)]
  /\ calls' = [calls EXCEPT ![r] = Append(@, "execute")]
  /\ pc' = [pc EXCEPT ![r] = "validate"]
  /\ UNCHANGED <<reply, db, writer, req, draft, order, pending, err, resp, pre, overlap>>

\* create_order: the validation loop; raises ValueError on the first bad line.
Validate(r) ==
  /\ pc[r] = "validate"
  /\ LET v == ValidateItems(req[r].items, products[r])
     IN /\ products' = [products EXCEPT ![r] = v.products]
        /\ IF v.ok
           THEN /\ draft' = [draft EXCEPT ![r] = v.draft]
                /\ pc' = [pc EXCEPT ![r] = "flush"]
                /\ err' = err
           ELSE /\ err' = [err EXCEPT ![r] = v.error]
                /\ pc' = [pc EXCEPT ![r] = "except_value"]
                /\ draft' = draft
  /\ UNCHANGED <<reply, db, writer, req, order, pending, resp, calls, pre,
                 seen, overlap>>

\* create_order: session.add(order); session.flush() inserts the order row
\* inside the session's transaction, which takes the database write lock.
Flush(r) ==
  /\ pc[r] = "flush"
  /\ writer = NoWriter
  /\ writer' = r
  /\ order' = [order EXCEPT ![r] =
                 NewOrder(Len(orders) + 1, req[r].user_id,
                          draft[r].total_amount, req[r].shipping_address)]
  /\ calls' = [calls EXCEPT ![r] = Append(@, "flush")]
  /\ pc' = [pc EXCEPT ![r] = "build"]
  /\ UNCHANGED <<reply, db, req, products, draft, pending, err, resp, pre, seen, overlap>>

\* create_order: one OrderItem per validated dict, and the inventory of each
\* loaded Product object decremented, all pending in the session.
AddItems(r) ==
  /\ pc[r] = "build"
  /\ pending' = [pending EXCEPT ![r] = NewOrderItems(order[r].id, draft[r].order_items)]
  /\ products' = [products EXCEPT ![r] =
                    [p \in DOMAIN products[r] |->
                       [products[r][p] EXCEPT !.inventory =
                          @ - SumQty(draft[r].order_items, p)]]]
  /\ pc' = [pc EXCEPT ![r] = "commit"]
  /\ UNCHANGED <<reply, db, writer, req, draft, order, err, resp, calls, pre,
                 seen, overlap>>

\* create_user_order: db.commit() flushes the pending rows and updates under
\* the table constraints, then commits; a constraint failure raises.
Commit(r) ==
  /\ pc[r] = "commit"
  /\ calls' = [calls EXCEPT ![r] = Append(@, "commit")]
  /\ IF /\ \A p \in Modified(r) : CheckInventoryNonNegative(FlushedInventory(r, p))
        /\ \A i \in 1..Len(pending[r]) : CheckQuantityPositive(pending[r][i].quantity)
     THEN /\ inventory' = [p \in Products |->
                             IF p \in Modified(r) THEN FlushedInventory(r, p)
                             ELSE inventory[p]]
          /\ orders' = Append(orders, order[r])
          /\ order_items' = order_items \o pending[r]
          /\ writer' = NoWriter
          /\ overlap' = [overlap EXCEPT ![r] = PastValidation(r)]
          /\ pc' = [pc EXCEPT ![r] = "reload"]
     ELSE /\ pc' = [pc EXCEPT ![r] = "except_exc"]
          /\ UNCHANGED <<inventory, orders, order_items, writer, overlap>>
  /\ UNCHANGED <<reply, price, users, req, products, draft, order, pending, err,
                 resp, pre, seen>>

\* create_user_order: the order is re-read with its relationships and returned.
Reload(r) ==
  /\ pc[r] = "reload"
  /\ calls' = [calls EXCEPT ![r] = Append(@, "execute")]
  /\ resp' = [resp EXCEPT ![r] =
                [status |-> 200, detail |-> NoError, order_id |-> order[r].id]]
  /\ pc' = [pc EXCEPT ![r] = "done"]
  /\ UNCHANGED <<reply, db, writer, req, products, draft, order, pending, err, pre,
                 seen, overlap>>

\* An awaited database call raises (connection lost, lock timeout, I/O error).
StorageFailure(r) ==
  /\ pc[r] \in {"fetch", "flush", "commit", "reload"}
  /\ pc' = [pc EXCEPT ![r] = "except_exc"]
  /\ UNCHANGED <<reply, db, writer, req, products, draft, order, pending, err, resp,
                 calls, pre, seen, overlap>>

\* session.rollback(): pending objects are discarded and the lock released.
RollbackSession(r) ==
  /\ writer' = IF writer = r THEN NoWriter ELSE writer
  /\ pending' = [pending EXCEPT ![r] = <<>>]
  /\ calls' = [calls EXCEPT ![r] = Append(@, "rollback")]

ValueErrorStatus500 == 500
\* create_user_order: `except ValueError` answers HTTP_400_BAD_REQUEST.
ValueErrorStatus == 400

\* create_user_order: `except ValueError`: rollback, then HTTPException(400).
ExceptValueError(r) ==
  /\ pc[r] = "except_value"
  /\ RollbackSession(r)
  /\ pc' = [pc EXCEPT ![r] = "raise_400"]
  /\ UNCHANGED <<reply, db, req, products, draft, order, err, resp, pre, seen, overlap>>

\* create_user_order: `except Exception`: rollback, then HTTPException(500).
ExceptException(r) ==
  /\ pc[r] = "except_exc"
  /\ RollbackSession(r)
  /\ pc' = [pc EXCEPT ![r] = "raise_500"]
  /\ UNCHANGED <<reply, db, req, products, draft, order, err, resp, pre, seen, overlap>>

\* The router re-raises the controller's HTTPException to the client.
RaiseHTTP(r) ==
  /\ pc[r] \in {"raise_400", "raise_500"}
  /\ resp' = [resp EXCEPT ![r] =
                IF pc[r] = "raise_400"
                THEN [status |-> ValueErrorStatus, detail |-> err[r], order_id |-> 0]
                ELSE [status |-> 500, detail |-> NoError, order_id |-> 0]]
  /\ pc' = [pc EXCEPT ![r] = "done"]
  /\ UNCHANGED <<reply, db, writer, req, products, draft, order, pending, err, calls, pre,
                 seen, overlap>>

\* get_db: the request is over and its session closed.
Close(r) ==
  /\ pc[r] = "done"
  /\ pc' = [pc EXCEPT ![r] = "idle"]
  /\ req' = [req EXCEPT ![r] = NoReq]
  /\ products' = [products EXCEPT ![r] = <<>>]
  /\ draft' = [draft EXCEPT ![r] = NoDraft]
  /\ order' = [order EXCEPT ![r] = NoOrder]
  /\ pending' = [pending EXCEPT ![r] = <<>>]
  /\ err' = [err EXCEPT ![r] = NoError]
  /\ resp' = [resp EXCEPT ![r] = NoResp]
  /\ calls' = [calls EXCEPT ![r] = <<>>]
  /\ pre' = [pre EXCEPT ![r] = NoPre]
  /\ seen' = [seen EXCEPT ![r] = <<>>]
  /\ overlap' = [overlap EXCEPT ![r] = {}]
  /\ UNCHANGED <<reply, db, writer>>

\* A product's price column is rewritten outside the order path.
ChangePrice(p, v) ==
  /\ price[p] # v
  /\ price' = [price EXCEPT ![p] = v]
  /\ UNCHANGED <<reply, inventory, users, orders, order_items, writer, pc, req, products,
                 draft, order, pending, err, resp, calls, pre, seen, overlap>>

\* A user's profile address columns are rewritten outside the order path.
EditProfile(u, a) ==
  /\ users[u] # a
  /\ users' = [users EXCEPT ![u] = a]
  /\ UNCHANGED <<reply, inventory, price, orders, order_items, writer, pc, req, products,
                 draft, order, pending, err, resp, calls, pre, seen, overlap>>

\* ------------------------------------------------- the other request paths
\* OrderItemRequest: product_id > 0 and quantity > 0.
OrderItemRequestValid(line) == line.product_id > 0 /\ line.quantity > 0
OrderRequestValidAnyLength(items) ==
  \A i \in 1..Len(items) : OrderItemRequestValid(items[i])
\* OrderRequest: items has min_length 1 and every item is valid.
OrderRequestValid(items) ==
  /\ Len(items) >= 1
  /\ \A i \in 1..Len(items) : OrderItemRequestValid(items[i])

\* POST /orders with any body: a body that fails OrderRequest validation is
\* answered 422 before the controller runs; a valid one enters the controller.
Receive(r, us, lists, addrs) ==
  \/ Begin(r, us, {items \in lists : OrderRequestValid(items)}, addrs)
  \/ /\ pc[r] = "idle"
     /\ \E u \in us, items \in lists, given \in addrs :
          /\ ~OrderRequestValid(items)
          /\ req' = [req EXCEPT ![r] =
                       [user_id |-> u, items |-> items, given |-> given,
                        profile |-> users[u], shipping_address |-> NoAddress]]
     /\ pre' = [pre EXCEPT ![r] =
                  [inventory |-> inventory, orders |-> orders,
                   order_items |-> order_items]]
     /\ resp' = [resp EXCEPT ![r] = [status |-> 422, detail |-> NoError, order_id |-> 0]]
     /\ pc' = [pc EXCEPT ![r] = "done"]
     /\ UNCHANGED <<reply, db, writer, products, draft, order, pending, err, calls,
                    seen, overlap>>

\* GET /orders for user u: fetch_user_orders, or the router's 500 when the
\* query raises.
ListOrders(u) ==
  /\ \/ reply' = [op |-> "orders", status |-> 200, user_id |-> u,
                  orders |-> get_user_orders(u)]
     \/ reply' = [op |-> "orders", status |-> 500, user_id |-> u]
  /\ UNCHANGED <<db, writer, pc, req, products, draft, order, pending, err, resp,
                 calls, pre, seen, overlap>>

\* GET /products: ProductQuery validation (422), fetch_products, or the
\* router's 500 when a query raises.
ListProducts(queries) ==
  /\ \E params \in queries :
       \/ /\ ~ProductQueryValid(params)
          /\ reply' = [op |-> "products", status |-> 422, params |-> params]
       \/ /\ ProductQueryValid(params)
          /\ \/ reply' = [op |-> "products", status |-> 200, params |-> params,
                          body |-> fetch_products(params)]
             \/ reply' = [op |-> "products", status |-> 500, params |-> params]
  /\ UNCHANGED <<db, writer, pc, req, products, draft, order, pending, err, resp,
                 calls, pre, seen, overlap>>

\* POST /auth/login.
Login(emails, passwords) ==
  /\ \E email \in emails, password \in passwords :
       reply' = [op |-> "login", email |-> email, password |-> password,
                 body |-> authenticate_user(email, password)]
  /\ UNCHANGED <<db, writer, pc, req, products, draft, order, pending, err, resp,
                 calls, pre, seen, overlap>>

\* A call of calculate_pagination.
Paginate(pages, page_sizes) ==
  /\ \E page \in pages, page_size \in page_sizes :
       reply' = [op |-> "paginate", page |-> page, page_size |-> page_size,
                 result |-> calculate_pagination(page, page_size)]
  /\ UNCHANGED <<db, writer, pc, req, products, draft, order, pending, err, resp,
                 calls, pre, seen, overlap>>

\* Steps of a request after it arrived.
Step(r) ==
  \/ Fetch(r)
  \/ Validate(r)
  \/ Flush(r)
  \/ AddItems(r)
  \/ Commit(r)
  \/ Reload(r)
  \/ StorageFailure(r)
  \/ ExceptValueError(r)
  \/ ExceptException(r)
  \/ RaiseHTTP(r)
  \/ Close(r)

\* ---------------------------------------------------------- specifications
\* Requests one at a time, over every item list.
Next ==
  \/ Begin(1, {1}, ItemLists(AllLines), {NoAddress})
  \/ Step(1)
Spec == Init /\ [][Next]_vars

\* Requests one at a time, with price changes and profile edits in between
\* and during them.
NextSnap ==
  \/ Begin(1, {1}, SnapLists, FewAddresses)
  \/ Step(1)
  \/ \E v \in PriceChoices : ChangePrice(1, v)
  \/ \E a \in ProfileAddresses : EditProfile(1, a)
SpecSnap == Init /\ [][NextSnap]_vars

\* Requests one at a time, over every request and profile address.
NextShip ==
  \/ Begin(1, {1}, ShipLists, AllAddresses)
  \/ Step(1)
  \/ \E a \in AllAddresses \cup {HomeAddress} : EditProfile(1, a)
SpecShip == Init /\ [][NextShip]_vars

\* Two requests running concurrently.
NextConc ==
  \/ \E r \in Reqs : Begin(r, {1}, ConcLists, {NoAddress})
  \/ \E r \in Reqs : Step(r)
SpecConc == Init /\ [][NextConc]_vars

\* Every endpoint, create-order requests one at a time from two users, with
\* request bodies that fail validation.
OpsLists == {<<>>, <<Line(1, 0)>>, <<Line(1, 1)>>, <<Line(1, 2)>>}
OpsQueries ==
  {[search |-> None, category |-> None, page |-> 1, page_size |-> 2],
   [search |-> "b", category |-> None, page |-> 2, page_size |-> 1],
   [search |-> None, category |-> None, page |-> 0, page_size |-> 2]}
NextOps ==
  \/ Receive(1, Users, OpsLists, {NoAddress})
  \/ Step(1)
  \/ \E u \in Users : ListOrders(u)
  \/ ListProducts(OpsQueries)
  \/ Login({Email(1), "nobody"}, {Password(1), "bad"})
SpecOps == Init /\ [][NextOps]_vars

\* Every endpoint, with two create-order requests running concurrently.
ConcOpsLists == {<<>>, <<Line(1, 1)>>, <<Line(1, 2)>>}
ConcOpsQueries == {[search |-> None, category |-> None, page |-> 1, page_size |-> 2]}
NextConcOps ==
  \/ \E r \in Reqs : Receive(r, {1}, ConcOpsLists, {NoAddress})
  \/ \E r \in Reqs : Step(r)
  \/ ListOrders(1)
  \/ ListProducts(ConcOpsQueries)
  \/ Login({Email(1)}, {Password(1)})
SpecConcOps == Init /\ [][NextConcOps]_vars

\* Two requests running concurrently, over item lists that succeed, fail
\* validation or fail at the commit, on the same and on different products.
PairLists ==
  {<<Line(1, 1), Line(1, 1)>>, <<Line(1, 1), Line(1, InitInventory)>>,
   <<Line(1, InitInventory + 1)>>, <<Line(2, 1)>>, <<Line(2, 1), Line(MissingId, 1)>>}
NextPair ==
  \/ \E r \in Reqs : Begin(r, {1}, PairLists, {NoAddress})
  \/ \E r \in Reqs : Step(r)
SpecPair == Init /\ [][NextPair]_vars

\* Calls of calculate_pagination over every pair of integers in range.
PageInputs == (0 - MaxPage)..MaxPage
PageSizeInputs == ((0 - MaxPageSize)..MaxPageSize) \cup {MaxAcceptedPageSize}
NextPaginate == Paginate(PageInputs, PageSizeInputs)
SpecPaginate == Init /\ [][NextPaginate]_vars

\* Product listings over every search term, category, page and page_size.
SearchTerms == {None, "", "a", "B", "ab"}
CatalogQueries ==
  [search : SearchTerms, category : CategoryEnum \cup {None},
   page : 0..MaxPage,
   page_size : (0..MaxPageSize) \cup {MaxAcceptedPageSize, MaxAcceptedPageSize + 1}]
NextCatalog == ListProducts(CatalogQueries)
SpecCatalog == Init /\ [][NextCatalog]_vars

\* ------------------------------------------------------------------ claims
\* A line that cannot be served from the given inventories.
BadLine(line, inv) ==
  \/ line.product_id \notin Products
  \/ line.quantity > inv[line.product_id]
HasBadLine(items, inv) == \E i \in 1..Len(items) : BadLine(items[i], inv)
\* The committed orders, order items and inventories are those of the arrival.
Untouched(r) ==
  /\ orders = pre[r].orders
  /\ order_items = pre[r].order_items
  /\ inventory = pre[r].inventory
Wrote(r) == \E i \in 1..Len(calls[r]) : calls[r][i] \in {"flush", "commit"}

\* C1: a create-order request with a line whose product_id is not in the
\* catalog, or whose quantity exceeds that product's inventory, fails entirely:
\* it never reaches a flush or a commit, it is not answered 200, and the
\* persisted orders, order items and inventories are those from before it.
C1_BadLineFailsEntirely ==
  \A r \in Reqs :
    (pc[r] # "idle" /\ HasBadLine(req[r].items, pre[r].inventory)) =>
      /\ ~Wrote(r)
      /\ Untouched(r)
      /\ pc[r] = "done" => resp[r].status \in {400, 500}

\* A two-line request whose first line is valid and whose second is not was
\* answered 400 after an earlier order had been persisted.
C1_Witness ==
  \E r \in Reqs :
    /\ pc[r] = "done"
    /\ resp[r].status = 400
    /\ Len(req[r].items) = 2
    /\ ~BadLine(req[r].items[1], pre[r].inventory)
    /\ BadLine(req[r].items[2], pre[r].inventory)
    /\ orders # <<>>

\* C2: with create-order requests executed one at a time, every product's
\* persisted inventory is >= 0 in every reachable state.
C2_InventoryNonNegative == \A p \in Products : inventory[p] >= 0

\* A request naming one product on two lines, each line within the stock and
\* their sum above it, has run to its response.
C2_Witness ==
  \E r \in Reqs, p \in Products :
    /\ pc[r] = "done"
    /\ ~HasBadLine(req[r].items, pre[r].inventory)
    /\ SumQty(req[r].items, p) > pre[r].inventory[p]
    /\ "commit" \in {calls[r][i] : i \in 1..Len(calls[r])}

\* Requests r1 and r2 both ordered product p and were both answered 200, and
\* r1 committed while r2 had already passed validation and not yet committed.
RaceDone(r1, r2, p) ==
  /\ r1 # r2
  /\ pc[r1] = "done" /\ resp[r1].status = 200
  /\ pc[r2] = "done" /\ resp[r2].status = 200
  /\ r2 \in overlap[r1]
  /\ p \in Modified(r1) \cap Modified(r2)
\* Both requests of the race read the same inventory of p, less than they
\* ordered together.
Oversold(r1, r2, p) ==
  /\ RaceDone(r1, r2, p)
  /\ seen[r1][p].inventory = seen[r2][p].inventory
  /\ SumQty(req[r1].items, p) + SumQty(req[r2].items, p) > seen[r1][p].inventory

\* C3 (as stated): two concurrent create-order requests against one product
\* that both pass the inventory check before either commits, and both commit,
\* leave the product's persisted inventory negative.
C3_RaceDrivesNegative ==
  \A r1 \in Reqs, r2 \in Reqs, p \in Products :
    Oversold(r1, r2, p) => inventory[p] < 0

\* C3 (amended): the lost-update interleaving is reachable, and after it the
\* persisted inventory is what the later committer read minus its own
\* quantity: the earlier decrement is lost, and no inventory is ever negative.
C3_RaceLosesUpdate ==
  /\ \A p \in Products : inventory[p] >= 0
  /\ \A r1 \in Reqs, r2 \in Reqs, p \in Products :
       RaceDone(r1, r2, p) =>
         inventory[p] = seen[r2][p].inventory - SumQty(req[r2].items, p)

\* Both requests of a race were answered 200 having ordered, together, more
\* than the inventory both had read.
C3_Witness == \E r1 \in Reqs, r2 \in Reqs, p \in Products : Oversold(r1, r2, p)

\* C4: the commit of a create-order request decrements each referenced
\* product's persisted inventory by exactly the quantity requested for it,
\* leaves every other inventory unchanged, and persists one order and exactly
\* one order item per requested line, with the line's product_id and quantity,
\* attached to that order.
C4_ExactDecrement ==
  [][\A r \in Reqs :
       (pc[r] = "commit" /\ pc'[r] = "reload") =>
         /\ \A p \in Products :
              inventory'[p] = inventory[p] - SumQty(req[r].items, p)
         /\ orders' = Append(orders, order[r])
         /\ Len(order_items') = Len(order_items) + Len(req[r].items)
         /\ \A i \in 1..Len(req[r].items) :
              LET row == order_items'[Len(order_items) + i]
              IN /\ row.order_id = order[r].id
                 /\ row.product_id = req[r].items[i].product_id
                 /\ row.quantity = req[r].items[i].quantity]_vars

\* The rows of order_items that belong to order o.
ItemsOf(o) == SelectSeq(order_items, LAMBDA row : row.order_id = o.id)
\* The request's order is persisted (committed, whatever the response).
Persisted(r) == pc[r] = "reload" \/ (pc[r] = "done" /\ resp[r].status = 200)
Range(f) == {f[i] : i \in DOMAIN f}

\* C5: every persisted order's total_amount is exactly the sum over its order
\* items of quantity * price_at_purchase, and each item's price_at_purchase is
\* the price of its product as the request's batch fetch read it.
C5_TotalIsSumOfSnapshots ==
  /\ \A i \in 1..Len(orders) :
       orders[i].total_amount = SumTotal(ItemsOf(orders[i]))
  /\ \A r \in Reqs :
       Persisted(r) =>
         \A row \in Range(ItemsOf(order[r])) :
           row.price_at_purchase = seen[r][row.product_id].price

\* An order of two lines, or of a line of quantity 2, has just been committed,
\* the price of one of its products having changed since the fetch.
C5_Witness ==
  \E r \in Reqs :
    /\ pc[r] = "reload"
    /\ Len(ItemsOf(order[r])) = 2 \/ \E row \in Range(ItemsOf(order[r])) : row.quantity = 2
    /\ \E row \in Range(ItemsOf(order[r])) :
         row.price_at_purchase # price[row.product_id]

\* What a listed order shows of the snapshot taken at its creation.
Snapshot(view) ==
  [id |-> view.o.id, total_amount |-> view.o.total_amount,
   shipping_street |-> view.o.shipping_street,
   shipping_city |-> view.o.shipping_city,
   shipping_state |-> view.o.shipping_state,
   shipping_postal_code |-> view.o.shipping_postal_code,
   shipping_country |-> view.o.shipping_country,
   lines |-> [i \in 1..Len(view.order_items) |->
                [product_id |-> view.order_items[i].product_id,
                 quantity |-> view.order_items[i].quantity,
                 price_at_purchase |-> view.order_items[i].price_at_purchase]]]
Snapshots(u) == {Snapshot(v) : v \in Range(get_user_orders(u))}

\* C6: once an order is persisted, listing its user's orders returns the same
\* total_amount, line quantities and price_at_purchase, and shipping fields
\* for it after every later step: price changes, profile edits, other orders.
C6_SnapshotsFrozen ==
  [][\A u \in Users : Snapshots(u) \subseteq Snapshots(u)']_vars

\* A listed order shows a price_at_purchase that differs from its product's
\* current price and the shipping street of a profile that was edited since,
\* and a later order has been created.
C6_Witness ==
  \E u \in Users :
    /\ Cardinality(Snapshots(u)) >= 2
    /\ \E s \in Snapshots(u) :
         /\ s.shipping_street = HomeAddress.street
         /\ users[u].street # HomeAddress.street
         /\ \E i \in 1..Len(s.lines) :
              s.lines[i].price_at_purchase # price[s.lines[i].product_id]

\* The first line of the request that the rows read by the fetch cannot serve.
SeenInventory(r) ==
  [p \in Products |-> IF p \in DOMAIN seen[r] THEN seen[r][p].inventory ELSE 0]
FirstBad(r) ==
  CHOOSE i \in 1..Len(req[r].items) :
    /\ BadLine(req[r].items[i], SeenInventory(r))
    /\ \A j \in 1..(i - 1) : ~BadLine(req[r].items[j], SeenInventory(r))
Failed(r) == err[r] # NoError

\* C7 (as stated): the first failing line decides the error, and when its
\* product exists with inventory < quantity the insufficient-inventory error
\* carries that line's product_id, the available inventory and the quantity.
C7_ErrorCarriesProductId ==
  \A r \in Reqs :
    (Failed(r) /\ req[r].items[FirstBad(r)].product_id \in Products) =>
      /\ err[r].kind = "insufficient"
      /\ err[r].product_id = req[r].items[FirstBad(r)].product_id
      /\ err[r].available = seen[r][req[r].items[FirstBad(r)].product_id].inventory
      /\ err[r].requested = req[r].items[FirstBad(r)].quantity

\* C7 (amended): lines are validated in submission order and the first
\* failing line decides the error: product-not-found with that product_id
\* when the product is absent; otherwise insufficient-inventory with that
\* product's title (no product_id), its available inventory and the requested
\* quantity. A request fails validation exactly when it has a failing line.
C7_FirstBadLineDecides ==
  \A r \in Reqs :
    /\ Failed(r) =>
         LET line == req[r].items[FirstBad(r)]
         IN IF line.product_id \notin Products
            THEN err[r] = [kind |-> "not_found", product_id |-> line.product_id,
                           title |-> None, available |-> NoInt, requested |-> NoInt]
            ELSE err[r] = [kind |-> "insufficient", product_id |-> NoInt,
                           title |-> Title(line.product_id),
                           available |-> seen[r][line.product_id].inventory,
                           requested |-> line.quantity]
    /\ pc[r] \in {"flush", "build", "commit", "reload"} =>
         ~HasBadLine(req[r].items, SeenInventory(r))

\* A request whose first line asks more than the stock and whose second names
\* a missing product failed with the first line's insufficient-inventory error.
C7_Witness ==
  \E r \in Reqs :
    /\ Failed(r)
    /\ Len(req[r].items) = 2
    /\ FirstBad(r) = 1
    /\ err[r].kind = "insufficient"
    /\ req[r].items[2].product_id = MissingId

\* C8: a create-order request answered with the generic 500 response has been
\* rolled back: the persisted orders, order items and inventories are those
\* from before the request.
C8_Status500MeansRolledBack ==
  \A r \in Reqs : (pc[r] = "done" /\ resp[r].status = 500) => Untouched(r)

Called(r, m) == \E i \in 1..Len(calls[r]) : calls[r][i] = m

Provided(v) == v \notin {None, ""}
Preferred(given, fallback) == IF Provided(given) THEN given ELSE fallback

\* C10: each shipping field of a persisted order is the request's value when
\* the request provides one (a non-empty string), otherwise the field of the
\* user's profile as the request saw it; shipping_country is "USA" when
\* neither provides a country, and is never None or empty.
C10_ShippingFromRequestOrProfile ==
  /\ \A r \in Reqs :
       Persisted(r) =>
         LET o == orders[order[r].id]
             g == req[r].given
             u == req[r].profile
         IN /\ o.shipping_street = Preferred(g.street, u.street)
            /\ o.shipping_city = Preferred(g.city, u.city)
            /\ o.shipping_state = Preferred(g.state, u.state)
            /\ o.shipping_postal_code = Preferred(g.postal_code, u.postal_code)
            /\ o.shipping_country =
                 Preferred(g.country, Preferred(u.country, "USA"))
  /\ \A i \in 1..Len(orders) : Provided(orders[i].shipping_country)

\* An order is persisted whose street came from the request, whose postal
\* code came from the profile, and whose country is the "USA" default because
\* neither the request nor the profile provided one.
C10_Witness ==
  \E r \in Reqs :
    /\ Persisted(r)
    /\ Provided(req[r].given.street)
    /\ ~Provided(req[r].given.postal_code)
    /\ Provided(req[r].profile.postal_code)
    /\ req[r].given.country = None
    /\ req[r].profile.country = ""
    /\ orders[order[r].id].shipping_country = "USA"
    /\ orders[order[r].id].shipping_postal_code = req[r].profile.postal_code

IsPrefix(s, t) == Len(s) <= Len(t) /\ \A i \in 1..Len(s) : s[i] = t[i]
\* The step is the successful commit of a create-order request.
CommitStep == \E r \in Reqs : pc[r] = "commit" /\ pc'[r] = "reload"

\* C11: every step of every endpoint leaves the persisted order and order-item
\* rows as they were, except the commit of a create-order request, which only
\* appends rows; and every persisted order has status "PENDING".
C11_OrdersOnlyGrow ==
  [][/\ IsPrefix(orders, orders')
     /\ IsPrefix(order_items, order_items')
     /\ (orders' # orders \/ order_items' # order_items) => CommitStep
     /\ \A i \in 1..Len(orders') : orders'[i].status = "PENDING"]_vars

\* Two orders are persisted, a third request was answered 500 and the orders
\* of a user have been listed.
C11_Witness ==
  /\ Len(orders) = 2
  /\ \E r \in Reqs : pc[r] = "done" /\ resp[r].status = 500
  /\ reply.op = "orders" /\ reply.status = 200 /\ Len(reply.orders) >= 1

\* C12: each product's persisted inventory never increases, and every step
\* other than the commit of a create-order request leaves all inventories
\* unchanged.
C12_InventoryOnlyDecreases ==
  [][/\ \A p \in Products : inventory'[p] <= inventory[p]
     /\ inventory' # inventory => CommitStep]_vars

\* The request body has no line, or a line of zero or negative quantity.
EmptyOrNonPositive(items) ==
  Len(items) = 0 \/ \E i \in 1..Len(items) : items[i].quantity <= 0

\* C13: every persisted order owns at least one order item and every persisted
\* order item has quantity > 0; a request body with no line or with a line of
\* quantity <= 0 is answered 422 without a session call and persists nothing.
C13_OrdersHaveLines ==
  /\ \A i \in 1..Len(orders) : Len(ItemsOf(orders[i])) >= 1
  /\ \A i \in 1..Len(order_items) : order_items[i].quantity > 0
  /\ \A r \in Reqs :
       (pc[r] # "idle" /\ EmptyOrNonPositive(req[r].items)) =>
         /\ pc[r] = "done" /\ resp[r].status = 422
         /\ calls[r] = <<>>
         /\ Untouched(r)

\* After an order was persisted, a request with an empty item list, or with a
\* line of quantity 0, has been answered 422.
C13_Witness ==
  /\ Len(orders) >= 1
  /\ \E r \in Reqs :
       /\ pc[r] = "done" /\ resp[r].status = 422
       /\ req[r].items \in {<<>>, <<Line(1, 0)>>}

\* The step answers GET /orders of user u with a list.
Listed(u) ==
  /\ reply' # reply
  /\ reply'.op = "orders"
  /\ reply'.status = 200
  /\ reply'.user_id = u

\* C14: a successful listing for user u returns each persisted order of u
\* exactly once and no order of another user, in descending created_at order,
\* and leaves the stored rows unchanged.
C14_ListingIsOwnOrdersNewestFirst ==
  [][\A u \in Users :
       Listed(u) =>
         LET L == reply'.orders
         IN /\ db' = db
            /\ \A i \in 1..Len(L) :
                 /\ L[i].o.user_id = u
                 /\ \E j \in 1..Len(orders) : orders[j] = L[i].o
            /\ \A j \in 1..Len(orders) :
                 orders[j].user_id = u =>
                   Cardinality({i \in 1..Len(L) : L[i].o.id = orders[j].id}) = 1
            /\ \A i \in 1..Len(L), k \in 1..Len(L) :
                 i < k => L[i].o.created_at > L[k].o.created_at]_vars

\* A user's two orders have been listed, the later one first.
C14_Witness ==
  /\ reply.op = "orders"
  /\ reply.status = 200
  /\ Len(reply.orders) = 2
  /\ reply.orders[1].o.id = 2

\* C15: calculate_pagination(page, page_size) returns offset =
\* (page - 1) * page_size and limit = page_size when page >= 1 and
\* page_size >= 1; a page < 1 counts as 1 and a page_size < 1 as 10; a large
\* page_size is not clamped; so offset >= 0 and limit >= 1 for every input.
C15_PaginationClamps ==
  reply.op = "paginate" =>
    LET page == IF reply.page < 1 THEN 1 ELSE reply.page
        page_size == IF reply.page_size < 1 THEN 10 ELSE reply.page_size
    IN /\ reply.result.offset = (page - 1) * page_size
       /\ reply.result.limit = page_size
       /\ reply.result.offset >= 0
       /\ reply.result.limit >= 1
       /\ reply.page_size >= 1 => reply.result.limit = reply.page_size

\* calculate_pagination was called with a page and a page_size below 1.
C15_Witness ==
  /\ reply.op = "paginate"
  /\ reply.page < 1
  /\ reply.page_size < 1
  /\ reply.result = [offset |-> 0, limit |-> 10]

\* The product listing answered 200.
ListedProducts == reply.op = "products" /\ reply.status = 200

\* C16: a product listing returns as total the number of products matching
\* the search and category filters, whatever the page and page_size, and as
\* items the matching products at positions offset + 1 .. min(offset + limit,
\* total) with offset = (page - 1) * page_size and limit = page_size: none
\* when offset >= total.
C16_PageOfMatches ==
  ListedProducts =>
    LET q == reply.params
        m == Matching(q.search, q.category)
        total == Len(m)
        offset == (q.page - 1) * q.page_size
        last == IF offset + q.page_size < total THEN offset + q.page_size ELSE total
    IN /\ reply.body.total = total
       /\ Len(reply.body.products) = (IF last > offset THEN last - offset ELSE 0)
       /\ \A i \in 1..Len(reply.body.products) : reply.body.products[i] = m[offset + i]
       /\ offset >= total => reply.body.products = <<>>

\* The second page of size 2 over three matching products holds the third.
C16_Witness ==
  /\ ListedProducts
  /\ reply.params.page = 2
  /\ reply.params.page_size = 2
  /\ reply.body.total = 3
  /\ Len(reply.body.products) = 1
  /\ reply.body.products[1].id = 3

\* C17: total_pages is ceil(total / page_size), 0 when total is 0, for every
\* accepted page_size; and every matching product is on exactly one of the
\* pages 1..total_pages.
C17_TotalPages ==
  ListedProducts =>
    LET q == reply.params
        b == reply.body
    IN /\ b.total = 0 => b.total_pages = 0
       /\ b.total > 0 =>
            /\ (b.total_pages - 1) * q.page_size < b.total
            /\ b.total <= b.total_pages * q.page_size
       /\ \A row \in Range(Matching(q.search, q.category)) :
            Cardinality({pg \in 1..b.total_pages :
              row \in Range(fetch_products([q EXCEPT !.page = pg]).products)}) = 1

\* Three matching products listed with page_size 2 make two pages.
C17_Witness ==
  /\ ListedProducts
  /\ reply.body.total = 3
  /\ reply.params.page_size = 2
  /\ reply.body.total_pages = 2

\* The units of product p that a sequence of lines or order-item rows names.
RECURSIVE Units(_, _)
Units(rows, p) ==
  IF rows = <<>> THEN 0
  ELSE Units(Tail(rows), p)
       + (IF Head(rows).product_id = p THEN Head(rows).quantity ELSE 0)

\* C18: with create-order requests executed one at a time, for every product
\* the initial inventory minus the persisted inventory equals the sum of the
\* quantities of the persisted order items that reference the product.
C18_StockConserved ==
  \A p \in Products : InitInventory - inventory[p] = Units(order_items, p)

\* Two orders are persisted, one of product 1 and one of products 1 and 2.
C18_Witness ==
  /\ Len(orders) = 2
  /\ Len(order_items) = 3
  /\ inventory[1] = InitInventory - 2
  /\ inventory[2] = InitInventory - 1

\* The request names product p on several lines, each within the inventory p
\* had when the request arrived, and together above it.
DuplicateLines(r, p) ==
  /\ pc[r] # "idle"
  /\ Cardinality({i \in 1..Len(req[r].items) : req[r].items[i].product_id = p}) >= 2
  /\ \A i \in 1..Len(req[r].items) :
       req[r].items[i].product_id = p => req[r].items[i].quantity <= pre[r].inventory[p]
  /\ Units(req[r].items, p) > pre[r].inventory[p]

\* C19: a create-order request that names one product on several lines, each
\* line within the product's inventory and their total above it, is never
\* committed: it is answered 400 or 500 and the persisted inventories, orders
\* and order items stay as they were.
C19_DuplicateLinesNeverCommit ==
  \A r \in Reqs, p \in Products :
    DuplicateLines(r, p) =>
      /\ pc[r] # "reload"
      /\ Untouched(r)
      /\ pc[r] = "done" => resp[r].status \in {400, 500}

\* Such a request passed validation, failed at the commit and was answered 500
\* after an earlier order had been persisted.
C19_Witness ==
  \E r \in Reqs, p \in Products :
    /\ DuplicateLines(r, p)
    /\ pc[r] = "done"
    /\ resp[r].status = 500
    /\ Called(r, "commit")
    /\ Len(orders) = 1

\* The session of request r holds a change: an added order, a constructed
\* order item, a decremented product, or a flush or commit already issued.
SessionChanged(r) ==
  \/ order[r] # NoOrder
  \/ pending[r] # <<>>
  \/ products[r] # seen[r]
  \/ Wrote(r)

\* C20: within one create-order call the session holds no change until every
\* submitted line has passed validation, and none at all when validation
\* fails: at the moment the error is raised, and up to the response, no order
\* was added, no order item constructed and no loaded product decremented.
C20_ValidateAllThenMutate ==
  \A r \in Reqs :
    /\ SessionChanged(r) =>
         /\ pc[r] \notin {"idle", "fetch", "validate", "except_value", "raise_400"}
         /\ ~HasBadLine(req[r].items, SeenInventory(r))
    /\ Failed(r) => ~SessionChanged(r)

\* A request whose first line passed validation and whose second failed is
\* about to be rolled back.
C20_Witness ==
  \E r \in Reqs :
    /\ pc[r] = "except_value"
    /\ Len(req[r].items) = 2
    /\ FirstBad(r) = 2
    /\ req[r].items[1].product_id = req[r].items[2].product_id

ProductsOf(items) == {items[i].product_id : i \in 1..Len(items)}
\* Requests r1 and r2 arrived on the same persisted state, so neither had
\* committed when the other arrived, are both answered, and name no product in
\* common.
DisjointDone(r1, r2) ==
  /\ r1 # r2
  /\ pc[r1] = "done"
  /\ pc[r2] = "done"
  /\ pre[r1] = pre[r2]
  /\ ProductsOf(req[r1].items) \cap ProductsOf(req[r2].items) = {}
\* The response the items get from a request running alone on inventories inv
\* with no storage failure: 400 for a line that fails validation, 500 when the
\* lines of one product exceed its inventory together, 200 otherwise.
AloneStatus(items, inv) ==
  IF HasBadLine(items, inv) THEN 400
  ELSE IF \E p \in Products : Units(items, p) > inv[p] THEN 500
  ELSE 200
\* The order of request r is among the persisted orders.
InOrders(r) == order[r] # NoOrder /\ \E i \in 1..Len(orders) : orders[i] = order[r]
\* Request r was answered 500 for a database call that raised.
StorageFailed(r) ==
  resp[r].status = 500 /\ (~Called(r, "commit") \/ InOrders(r))

\* C21: two create-order requests that name disjoint sets of products, under
\* every interleaving of their steps, are each answered as they would be
\* alone (or 500 for a database call that raised, as alone), and leave the
\* inventories and order lines of running one after the other: each persisted
\* request's products decremented by its quantities, its lines persisted as
\* requested, and nothing else changed.
C21_DisjointOrdersCommute ==
  \A r1 \in Reqs, r2 \in Reqs :
    DisjointDone(r1, r2) =>
      /\ \A r \in {r1, r2} :
           LET items == req[r].items
               alone == AloneStatus(items, pre[r].inventory)
           IN /\ ~StorageFailed(r) =>
                   (resp[r].status = alone /\ (InOrders(r) <=> alone = 200))
              /\ InOrders(r) => alone = 200
              /\ \A p \in ProductsOf(items) \cap Products :
                   inventory[p] = pre[r].inventory[p]
                                  - (IF InOrders(r) THEN Units(items, p) ELSE 0)
              /\ InOrders(r) =>
                   ItemsOf(order[r]) =
                     [i \in 1..Len(items) |->
                        [order_id |-> order[r].id, product_id |-> items[i].product_id,
                         quantity |-> items[i].quantity,
                         price_at_purchase |-> price[items[i].product_id]]]
      /\ Len(orders) = Len(pre[r1].orders) + Cardinality({r \in {r1, r2} : InOrders(r)})
      /\ Len(order_items) =
           Len(pre[r1].order_items)
           + (IF InOrders(r1) THEN Len(req[r1].items) ELSE 0)
           + (IF InOrders(r2) THEN Len(req[r2].items) ELSE 0)
      /\ \A p \in Products \ (ProductsOf(req[r1].items) \cup ProductsOf(req[r2].items)) :
           inventory[p] = pre[r1].inventory[p]

\* Two requests on different products were both answered 200, one committing
\* while the other had passed validation and not yet committed.
C21_Witness ==
  \E r1 \in Reqs, r2 \in Reqs :
    /\ DisjointDone(r1, r2)
    /\ r2 \in overlap[r1]
    /\ resp[r1].status = 200
    /\ resp[r2].status = 200
    /\ Len(req[r1].items) = 2

====
